---- MODULE Spec2Model ----
(***************************************************************************)
(* Model of backend_v12.py: the sharded property catalogue.  Four shard    *)
(* databases each hold a "properties" collection; a record is placed on a  *)
(* primary shard (get_database) and duplicated on a second shard           *)
(* (generate_hash_for_duplication).  insert_property, update_property and  *)
(* delete_property are modelled as whole calls, each with at most one      *)
(* shard call that raises.                                                 *)
(*                                                                         *)
(* Python values are modelled as tagged records [t |-> type, v |-> value]; *)
(* a str is a sequence of one-character strings, a float is counted in     *)
(* tenths.  A document and a property_data dict are functions from field   *)
(* names to such values.                                                   *)
(***************************************************************************)
EXTENDS Integers, Sequences, FiniteSets, TLC

\* ------------------------------------------------------------------ values

PyStr(s) == [t |-> "str", v |-> s]
PyInt(n) == [t |-> "int", v |-> n]
PyFloat(tenths) == [t |-> "float", v |-> tenths]
PyList(l) == [t |-> "list", v |-> l]
PyNone == [t |-> "NoneType", v |-> 0]

Min(a, b) == IF a < b THEN a ELSE b

\* ------------------------------------------------------- character classes

Digits == {"0", "1", "2", "3", "4", "5", "6", "7", "8", "9"}
LowerCase == <<"a", "b", "c", "d", "e", "f", "g", "h", "i", "j", "k", "l", "m",
               "n", "o", "p", "q", "r", "s", "t", "u", "v", "w", "x", "y", "z">>
UpperCase == <<"A", "B", "C", "D", "E", "F", "G", "H", "I", "J", "K", "L", "M",
               "N", "O", "P", "Q", "R", "S", "T", "U", "V", "W", "X", "Y", "Z">>
Letters == {LowerCase[i] : i \in 1..Len(LowerCase)} \cup {UpperCase[i] : i \in 1..Len(UpperCase)}
Whitespace == {" ", "\t", "\n", "\r"}

\* \d, \s and \w of the re module, on ASCII text
IsDigit(c) == c \in Digits
IsSpace(c) == c \in Whitespace
WordChars == Letters \cup Digits \cup {"_"}
IsBlank(c) == c = " "

\* ------------------------------------------------------------ str methods

\* c.upper() for one character
UpperChar(c) ==
    IF \E i \in 1..Len(LowerCase) : LowerCase[i] = c
    THEN UpperCase[CHOOSE i \in 1..Len(LowerCase) : LowerCase[i] = c]
    ELSE c

\* s.upper()
upper(s) == [i \in 1..Len(s) |-> UpperChar(s[i])]

\* s[:n]
Prefix(s, n) == SubSeq(s, 1, Min(n, Len(s)))

\* s.strip()
strip(s) ==
    LET keep == {i \in 1..Len(s) : ~IsSpace(s[i])}
    IN IF keep = {} THEN <<>>
       ELSE SubSeq(s, CHOOSE i \in keep : \A j \in keep : i <= j,
                      CHOOSE i \in keep : \A j \in keep : j <= i)

\* ''.join(s.split()): s without its whitespace
JoinSplit(s) == SelectSeq(s, LAMBDA c : ~IsSpace(c))

\* s.replace(" ", "")
RemoveBlanks(s) == SelectSeq(s, LAMBDA c : ~IsBlank(c))

\* ---------------------------------------------------------------- regex

\* The last index of the longest run of characters of the class that starts at
\* index i of s; i - 1 when s[i] is not of the class (or i is past the end).
RunEnd(s, i, class) ==
    CHOOSE j \in (i - 1)..Len(s) :
        /\ \A k \in i..j : s[k] \in class
        /\ j = Len(s) \/ s[j + 1] \notin class

\* (\d+)\s+\w+ matches at index i: each greedy quantifier takes its whole run,
\* since giving characters back leaves a character the next item cannot match.
MatchAt(s, i) ==
    LET d == RunEnd(s, i, Digits)
        w == RunEnd(s, d + 1, Whitespace)
        e == RunEnd(s, w + 1, WordChars)
    IN d >= i /\ w >= d + 1 /\ e >= w + 1

\* The end of group 2: up to `more` further words (\s+\w+) after the word
\* ending at e.  The alternation tries four words, then three, two, one.
RECURSIVE StreetEnd(_, _, _)
StreetEnd(s, e, more) ==
    IF more = 0 THEN e
    ELSE LET w == RunEnd(s, e + 1, Whitespace)
             e2 == RunEnd(s, w + 1, WordChars)
         IN IF w >= e + 1 /\ e2 >= w + 1 THEN StreetEnd(s, e2, more - 1) ELSE e

\* A search whose group 2 takes two words of the street name at most
address_search_TwoWords(address) ==
    LET starts == {i \in 1..Len(address) : MatchAt(address, i)}
    IN IF starts = {} THEN [matched |-> FALSE, group1 |-> <<>>, group2 |-> <<>>]
       ELSE LET i == CHOOSE x \in starts : \A y \in starts : x <= y
                d == RunEnd(address, i, Digits)
                w == RunEnd(address, d + 1, Whitespace)
                e == RunEnd(address, w + 1, WordChars)
            IN [matched |-> TRUE,
                group1 |-> SubSeq(address, i, d),
                group2 |-> SubSeq(address, w + 1, StreetEnd(address, e, 1))]

\* re.search(r'(\d+)\s+(\w+\s+\w+\s+\w+\s+\w+|\w+\s+\w+\s+\w+|\w+\s+\w+|\w+)', address):
\* the leftmost match; matched = FALSE stands for None.
address_search(address) ==
    LET starts == {i \in 1..Len(address) : MatchAt(address, i)}
    IN IF starts = {} THEN [matched |-> FALSE, group1 |-> <<>>, group2 |-> <<>>]
       ELSE LET i == CHOOSE x \in starts : \A y \in starts : x <= y
                d == RunEnd(address, i, Digits)
                w == RunEnd(address, d + 1, Whitespace)
                e == RunEnd(address, w + 1, WordChars)
            IN [matched |-> TRUE,
                group1 |-> SubSeq(address, i, d),
                group2 |-> SubSeq(address, w + 1, StreetEnd(address, e, 3))]

\* ------------------------------------------------------------ key deriver

create_custom_id(state, city, address) ==
    LET state_abbr == strip(upper(Prefix(state, 3)))
        city_abbr == upper(Prefix(JoinSplit(city), 4))
        address_parts == address_search(address)
        address_num == IF address_parts.matched THEN address_parts.group1
                       ELSE <<"0", "0", "0", "0">>
        street_name_part == IF address_parts.matched
                            THEN RemoveBlanks(address_parts.group2)
                            ELSE <<"N", "o", "S", "t", "r", "e", "e", "t">>
    IN state_abbr \o <<"-">> \o city_abbr \o <<"-">> \o address_num \o street_name_part

\* ------------------------------------------------------------ conversions

DigitValue(c) ==
    CASE c = "0" -> 0 [] c = "1" -> 1 [] c = "2" -> 2 [] c = "3" -> 3 [] c = "4" -> 4
      [] c = "5" -> 5 [] c = "6" -> 6 [] c = "7" -> 7 [] c = "8" -> 8 [] c = "9" -> 9

RECURSIVE DecimalValue(_)
DecimalValue(ds) ==
    IF ds = <<>> THEN 0
    ELSE 10 * DecimalValue(SubSeq(ds, 1, Len(ds) - 1)) + DigitValue(ds[Len(ds)])

\* A numeral without its sign: digits, with single underscores between digits
IsDigitString(ds) ==
    /\ ds # <<>>
    /\ \A i \in 1..Len(ds) : IsDigit(ds[i]) \/ ds[i] = "_"
    /\ IsDigit(ds[1]) /\ IsDigit(ds[Len(ds)])
    /\ \A i \in 1..(Len(ds) - 1) : ~(ds[i] = "_" /\ ds[i + 1] = "_")

Signed(s) == s # <<>> /\ s[1] \in {"+", "-"}
Unsigned(s) == IF Signed(s) THEN Tail(s) ELSE s
Sign(s) == IF Signed(s) /\ s[1] = "-" THEN -1 ELSE 1
Numeral(ds) == DecimalValue(SelectSeq(ds, LAMBDA c : c # "_"))

\* int(value): ok = FALSE with error "ValueError" or "TypeError" when int() raises
to_int(value) ==
    CASE value.t = "int" -> [ok |-> TRUE, value |-> value, error |-> "none"]
      [] value.t = "float" ->
            [ok |-> TRUE, error |-> "none",
             value |-> PyInt(IF value.v >= 0 THEN value.v \div 10 ELSE -((-value.v) \div 10))]
      [] value.t = "str" ->
            LET s == strip(value.v)
            IN IF IsDigitString(Unsigned(s))
               THEN [ok |-> TRUE, error |-> "none",
                     value |-> PyInt(Sign(s) * Numeral(Unsigned(s)))]
               ELSE [ok |-> FALSE, value |-> value, error |-> "ValueError"]
      [] OTHER -> [ok |-> FALSE, value |-> value, error |-> "TypeError"]

\* float(value), for decimal numerals without exponent; a float of the model
\* is kept to one fractional digit
to_float(value) ==
    CASE value.t = "float" -> [ok |-> TRUE, value |-> value, error |-> "none"]
      [] value.t = "int" -> [ok |-> TRUE, value |-> PyFloat(10 * value.v), error |-> "none"]
      [] value.t = "str" ->
            LET s == Unsigned(strip(value.v))
                dots == {i \in 1..Len(s) : s[i] = "."}
                dot == IF dots = {} THEN Len(s) + 1 ELSE CHOOSE i \in dots : TRUE
                whole == SubSeq(s, 1, dot - 1)
                frac == SubSeq(s, dot + 1, Len(s))
                tenth == IF frac = <<>> THEN 0 ELSE DigitValue(frac[1])
            IN IF /\ Cardinality(dots) <= 1
                  /\ whole # <<>> \/ frac # <<>>
                  /\ whole = <<>> \/ IsDigitString(whole)
                  /\ frac = <<>> \/ IsDigitString(frac)
               THEN [ok |-> TRUE, error |-> "none",
                     value |-> PyFloat(Sign(strip(value.v)) * (10 * Numeral(whole) + tenth))]
               ELSE [ok |-> FALSE, value |-> value, error |-> "ValueError"]
      [] OTHER -> [ok |-> FALSE, value |-> value, error |-> "TypeError"]

\* ------------------------------------------------------------ configuration

DATABASE_NAMES == <<"properties_db1", "properties_db2", "properties_db3", "properties_db4">>

\* DATABASE_NAMES[i] and DATABASE_NAMES.index(name), counted from 0 as in Python
DatabaseAt(i) == DATABASE_NAMES[i + 1]
DatabaseIndex(name) == (CHOOSE i \in 1..Len(DATABASE_NAMES) : DATABASE_NAMES[i] = name) - 1
Databases == {DATABASE_NAMES[i] : i \in 1..Len(DATABASE_NAMES)}

\* property_schema, in the order of the dict, with the accepted types of each field
SchemaFields == <<"address", "city", "state", "zip_code", "price", "bedrooms", "bathrooms",
                  "square_footage", "type", "date_listed", "description", "images">>
property_schema ==
    [key \in {SchemaFields[i] : i \in 1..Len(SchemaFields)} |->
        CASE key \in {"address", "city", "state", "type", "date_listed", "description"} -> {"str"}
          [] key \in {"zip_code", "bedrooms", "square_footage"} -> {"int"}
          [] key = "price" -> {"int", "float"}
          [] key = "bathrooms" -> {"float"}
          [] key = "images" -> {"list"}]

\* isinstance(value, expected_type); bool is a subclass of int
isinstance(value, expected_type) ==
    \/ value.t \in expected_type
    \/ value.t = "bool" /\ "int" \in expected_type

\* ------------------------------------------------------------------ state

VARIABLES
    properties,   \* properties[db_name]: the documents of client[db_name]['properties'], in insertion order
    digest,       \* digest[custom_id]: int(hashlib.sha256(custom_id.encode()).hexdigest(), 16), reduced
    next_oid,     \* the ObjectId of the next document stored (insert_one gives a fresh one)
    last,         \* the last call: its arguments, its shard calls, its result, and the
                  \* collections as they were before it
    nchanges,     \* the number of calls so far that changed a collection
    found,        \* the list the last search_property returned, and the call it followed
    running       \* the insert_property calls followed shard call by shard call, each
                  \* with its position, its local variables and its result

vars == <<properties, digest, next_oid, last, nchanges, found, running>>

\* ------------------------------------------------------------- validation

optional_fields == {"images"}

FieldError(property_data, key) ==
    IF key \notin DOMAIN property_data
    THEN (IF key \notin optional_fields THEN "missing" ELSE "none")
    ELSE IF ~isinstance(property_data[key], property_schema[key]) THEN "type" ELSE "none"

\* A validation that raises at the first error it finds
validate_property_data_StopsAtFirst(property_data) ==
    SubSeq(SelectSeq([i \in 1..Len(SchemaFields) |->
                         [field |-> SchemaFields[i],
                          error |-> FieldError(property_data, SchemaFields[i])]],
                     LAMBDA e : e.error # "none"), 1, 1)

\* The errors list validate_property_data accumulates, in schema order; the
\* function raises ValueError when it is not empty.
validate_property_data(property_data) ==
    SelectSeq([i \in 1..Len(SchemaFields) |->
                  [field |-> SchemaFields[i], error |-> FieldError(property_data, SchemaFields[i])]],
              LAMBDA e : e.error # "none")

\* -------------------------------------------------------- placement resolver

\* hash_value of get_database and generate_hash_for_duplication
hash_value(custom_id) == digest[custom_id]

\* db_index of get_database
db_index(custom_id) == hash_value(custom_id) % Len(DATABASE_NAMES)

\* get_database(custom_id).name
get_database(custom_id) == DatabaseAt(db_index(custom_id))

\* A comparison that leaves the candidate on the excluded database unshifted
target_db_index_StrictCompare(custom_id, exclude_db) ==
    LET target_db_index_0 == hash_value(custom_id) % (Len(DATABASE_NAMES) - 1)
    IN IF DatabaseIndex(exclude_db) < target_db_index_0
       THEN target_db_index_0 + 1
       ELSE target_db_index_0

\* target_db_index of generate_hash_for_duplication, after the adjustment
target_db_index(custom_id, exclude_db) ==
    LET target_db_index_0 == hash_value(custom_id) % (Len(DATABASE_NAMES) - 1)
    IN IF DatabaseIndex(exclude_db) <= target_db_index_0
       THEN target_db_index_0 + 1
       ELSE target_db_index_0

generate_hash_for_duplication(custom_id, exclude_db) ==
    DatabaseAt(target_db_index(custom_id, exclude_db))

\* ------------------------------------------------------ shard store interface

\* A document matches the query {"custom_id": custom_id}
Matches(doc, custom_id) == "custom_id" \in DOMAIN doc /\ doc["custom_id"] = PyStr(custom_id)

\* The position of the first matching document of a collection, 0 when none
FirstMatch(collection, custom_id) ==
    LET hits == {i \in 1..Len(collection) : Matches(collection[i], custom_id)}
    IN IF hits = {} THEN 0 ELSE CHOOSE i \in hits : \A j \in hits : i <= j

\* collection.find_one({"custom_id": custom_id}): found = FALSE stands for None
find_one(collection, custom_id) ==
    LET i == FirstMatch(collection, custom_id)
    IN IF i = 0 THEN [found |-> FALSE, doc |-> <<>>] ELSE [found |-> TRUE, doc |-> collection[i]]

\* collection.insert_one(document)
insert_one(collection, document) == Append(collection, document)

\* The dict of an update mapping given as its items, in order
AsDict(items) ==
    [k \in {items[i].field : i \in 1..Len(items)} |->
        items[CHOOSE i \in 1..Len(items) : items[i].field = k].value]

\* {"$set": updates} applied to one document
SetFields(doc, updates) ==
    [k \in DOMAIN doc \cup DOMAIN updates |-> IF k \in DOMAIN updates THEN updates[k] ELSE doc[k]]

\* An update_one that replaces the document by the updates
update_one_Replaces(collection, custom_id, updates) ==
    LET i == FirstMatch(collection, custom_id)
    IN IF i = 0 THEN [collection |-> collection, matched_count |-> 0]
       ELSE [collection |-> [collection EXCEPT ![i] = updates], matched_count |-> 1]

\* An update_one with upsert: no match, and the updates are stored as a document
update_one_Upserts(collection, custom_id, updates) ==
    LET i == FirstMatch(collection, custom_id)
    IN IF i = 0 THEN [collection |-> Append(collection, updates), matched_count |-> 0]
       ELSE [collection |-> [collection EXCEPT ![i] = SetFields(collection[i], updates)],
             matched_count |-> 1]

\* collection.update_one({"custom_id": custom_id}, {"$set": updates})
update_one(collection, custom_id, updates) ==
    LET i == FirstMatch(collection, custom_id)
    IN IF i = 0 THEN [collection |-> collection, matched_count |-> 0]
       ELSE [collection |-> [collection EXCEPT ![i] = SetFields(collection[i], updates)],
             matched_count |-> 1]

\* collection.delete_one({"custom_id": custom_id})
delete_one(collection, custom_id) ==
    LET i == FirstMatch(collection, custom_id)
    IN IF i = 0 THEN [collection |-> collection, deleted_count |-> 0]
       ELSE [collection |-> SubSeq(collection, 1, i - 1) \o SubSeq(collection, i + 1, Len(collection)),
             deleted_count |-> 1]

\* One shard call of a handler, as recorded in last.calls
ShardCall(db_name, op, ok) == [db |-> db_name, op |-> op, ok |-> ok]

\* ------------------------------------------------------------------ insert

\* A handler makes its shard calls one after another; `fail` numbers the one
\* that raises (a transport or store error), 0 when none does.

\* A check whose loop returns after the first database
property_already_exists_FirstOnly(props, custom_id, fail) ==
    [exists |-> fail # 1 /\ find_one(props[DATABASE_NAMES[1]], custom_id).found,
     raised |-> fail = 1,
     calls |-> <<ShardCall(DATABASE_NAMES[1], "find_one", fail # 1)>>]

\* property_already_exists(custom_id): find_one on each database in turn, until
\* one finds the custom_id.
property_already_exists(props, custom_id, fail) ==
    LET hits == {i \in 1..Len(DATABASE_NAMES) :
                    find_one(props[DATABASE_NAMES[i]], custom_id).found}
        reached == IF hits = {} THEN Len(DATABASE_NAMES)
                   ELSE CHOOSE i \in hits : \A j \in hits : i <= j
        raised == fail \in 1..reached
        made == IF raised THEN fail ELSE reached
    IN [exists |-> ~raised /\ hits # {},
        raised |-> raised,
        calls |-> [i \in 1..made |-> ShardCall(DATABASE_NAMES[i], "find_one", i # fail)]]

\* A duplication that reports success and stores nothing
duplicate_property_Skipped(props, property_data, target_db_name, raises) ==
    [properties |-> props, ret |-> TRUE,
     calls |-> <<ShardCall(target_db_name, "insert_one", ~raises)>>]

\* duplicate_property(property_data, target_db_name): the exception of
\* insert_one is caught and logged, the function returns False.
duplicate_property(props, property_data, target_db_name, raises) ==
    IF raises
    THEN [properties |-> props, ret |-> FALSE,
          calls |-> <<ShardCall(target_db_name, "insert_one", FALSE)>>]
    ELSE [properties |-> [props EXCEPT ![target_db_name] = insert_one(@, property_data)],
          ret |-> TRUE,
          calls |-> <<ShardCall(target_db_name, "insert_one", TRUE)>>]

\* An insertion that goes on to the duplication after the original insertion raised
InsertWrites_DuplicatesAnyway(props, property_data, custom_id, fail) ==
    LET original_db == get_database(custom_id)
        primary_raises == fail = Len(DATABASE_NAMES) + 1
        written == IF primary_raises THEN props
                   ELSE [props EXCEPT ![original_db] = insert_one(@, property_data)]
        target_db_name == generate_hash_for_duplication(custom_id, original_db)
        dup == duplicate_property(written, property_data, target_db_name,
                                  fail = Len(DATABASE_NAMES) + 2)
    IN [properties |-> dup.properties,
        ret |-> IF primary_raises THEN "False" ELSE "True",
        error |-> IF primary_raises THEN "storage" ELSE "none",
        calls |-> <<ShardCall(original_db, "insert_one", ~primary_raises)>> \o dup.calls]

\* An insertion that fails when the duplication does
InsertWrites_ReplicaFatal(props, property_data, custom_id, fail) ==
    LET original_db == get_database(custom_id)
        primary_raises == fail = Len(DATABASE_NAMES) + 1
        written == [props EXCEPT ![original_db] = insert_one(@, property_data)]
        target_db_name == generate_hash_for_duplication(custom_id, original_db)
        dup == duplicate_property(written, property_data, target_db_name,
                                  fail = Len(DATABASE_NAMES) + 2)
    IN IF primary_raises
       THEN [properties |-> props, ret |-> "False", error |-> "storage",
             calls |-> <<ShardCall(original_db, "insert_one", FALSE)>>]
       ELSE [properties |-> dup.properties,
             ret |-> IF dup.ret THEN "True" ELSE "False",
             error |-> IF dup.ret THEN "none" ELSE "storage",
             calls |-> <<ShardCall(original_db, "insert_one", TRUE)>> \o dup.calls]

\* Lines 444-455 of insert_property: the original insertion, then the duplication
InsertWrites(props, property_data, custom_id, fail) ==
    LET original_db == get_database(custom_id)
        primary_raises == fail = Len(DATABASE_NAMES) + 1
        replica_raises == fail = Len(DATABASE_NAMES) + 2
    IN IF primary_raises
       THEN [properties |-> props, ret |-> "False", error |-> "storage",
             calls |-> <<ShardCall(original_db, "insert_one", FALSE)>>]
       ELSE LET written == [props EXCEPT ![original_db] = insert_one(@, property_data)]
                target_db_name == generate_hash_for_duplication(custom_id, original_db)
                dup == duplicate_property(written, property_data, target_db_name, replica_raises)
            IN [properties |-> dup.properties, ret |-> "True", error |-> "none",
                calls |-> <<ShardCall(original_db, "insert_one", TRUE)>> \o dup.calls]

\* property_data after lines 439, 442 and the _id insert_one gives it
Stamped(property_data, custom_id, username, oid) ==
    SetFields(property_data,
              [k \in {"custom_id", "created_by", "_id"} |->
                  CASE k = "custom_id" -> PyStr(custom_id)
                    [] k = "created_by" -> PyStr(username)
                    [] k = "_id" -> IF "_id" \in DOMAIN property_data THEN property_data["_id"]
                                    ELSE [t |-> "ObjectId", v |-> oid]])

\* Lines 436-455 of insert_property, with the custom_id line 435 derived
InsertDerived(props, oid, property_data, username, fail, custom_id) ==
    LET check == property_already_exists(props, custom_id, fail)
    IN IF check.raised
       THEN [properties |-> props, next_oid |-> oid, custom_id |-> custom_id,
             ret |-> "False", error |-> "storage", calls |-> check.calls]
       ELSE IF check.exists
       THEN [properties |-> props, next_oid |-> oid, custom_id |-> custom_id,
             ret |-> "False", error |-> "exists", calls |-> check.calls]
       ELSE LET w == InsertWrites(props, Stamped(property_data, custom_id, username, oid),
                                  custom_id, fail)
            IN [properties |-> w.properties, custom_id |-> custom_id,
                next_oid |-> IF w.ret = "True" THEN oid + 1 ELSE oid,
                ret |-> w.ret, error |-> w.error, calls |-> check.calls \o w.calls]

insert_property(props, oid, property_data, username, fail) ==
    IF validate_property_data(property_data) # <<>>
    THEN [properties |-> props, next_oid |-> oid, custom_id |-> <<>>,
          ret |-> "False", error |-> "validation", calls |-> <<>>]
    ELSE CHOOSE r \in
            {InsertDerived(props, oid, property_data, username, fail, custom_id) :
                custom_id \in {create_custom_id(property_data["state"].v,
                                                property_data["city"].v,
                                                property_data["address"].v)}} : TRUE

\* --------------------------------------------------------- update and delete

field_types == [price |-> "int", bedrooms |-> "int", bathrooms |-> "float"]

Convert(item) ==
    IF item.field \notin DOMAIN field_types THEN [ok |-> TRUE, value |-> item.value, error |-> "none"]
    ELSE IF field_types[item.field] = "int" THEN to_int(item.value) ELSE to_float(item.value)

\* A conversion loop that drops the values it cannot convert and goes on
ConvertUpdates_Lenient(items) ==
    [ok |-> TRUE, error |-> "none",
     updates |-> AsDict([i \in 1..Len(SelectSeq(items, LAMBDA item : Convert(item).ok)) |->
                            [field |-> SelectSeq(items, LAMBDA item : Convert(item).ok)[i].field,
                             value |-> Convert(SelectSeq(items, LAMBDA item : Convert(item).ok)[i]).value]])]

\* Lines 596-603: the values of the known numeric fields are converted in the
\* order of the dict; the first that cannot be stops the loop.
ConvertUpdates(items) ==
    LET bad == {i \in 1..Len(items) : ~Convert(items[i]).ok}
    IN IF bad = {}
       THEN [ok |-> TRUE, error |-> "none",
             updates |-> AsDict([i \in 1..Len(items) |->
                                    [field |-> items[i].field, value |-> Convert(items[i]).value]])]
       ELSE [ok |-> FALSE, updates |-> AsDict(items),
             error |-> Convert(items[CHOOSE i \in bad : \A j \in bad : i <= j]).error]

\* A check that accepts the creator of a copy on any shard
IsCreator_AnyCopy(props, custom_id, username) ==
    \E db \in Databases :
        /\ find_one(props[db], custom_id).found
        /\ "created_by" \in DOMAIN find_one(props[db], custom_id).doc
        /\ find_one(props[db], custom_id).doc["created_by"] = PyStr(username)

\* A check that only looks whether the primary shard has the custom_id
IsCreator_AnyUser(props, custom_id, username) ==
    find_one(props[get_database(custom_id)], custom_id).found

\* Lines 609-612 and 649-652: the caller created the copy found on the primary
\* shard of the custom_id.
IsCreator(props, custom_id, username) ==
    LET property_data == find_one(props[get_database(custom_id)], custom_id)
    IN /\ property_data.found
       /\ "created_by" \in DOMAIN property_data.doc
       /\ property_data.doc["created_by"] = PyStr(username)

\* A fan-out loop that goes through every database whatever call raises
Finished_GoesOn(fail) == Len(DATABASE_NAMES)

\* The databases a fan-out loop has finished with when its shard call number
\* `fail` raises (the loop's calls are numbered from 2, after the find_one)
Finished(fail) ==
    IF fail \in 2..(Len(DATABASE_NAMES) + 1) THEN fail - 2 ELSE Len(DATABASE_NAMES)

FanOutCalls(op, fail) ==
    [i \in 1..Min(Finished(fail) + 1, Len(DATABASE_NAMES)) |->
        ShardCall(DATABASE_NAMES[i], op, i # fail - 1)]

\* An update that looks the record up and checks its creator before it converts
update_property_ChecksCreatorFirst(props, custom_id, items, username, fail) ==
    LET conv == ConvertUpdates(items)
        lookup == <<ShardCall(get_database(custom_id), "find_one", fail # 1)>>
    IN IF fail = 1
       THEN [properties |-> props, calls |-> lookup, error |-> "storage", ret |-> "raise"]
       ELSE IF ~IsCreator(props, custom_id, username)
       THEN [properties |-> props, calls |-> lookup, error |-> "permission", ret |-> "False"]
       ELSE IF ~conv.ok
       THEN [properties |-> props, calls |-> lookup, error |-> "conversion",
             ret |-> IF conv.error = "ValueError" THEN "False" ELSE "raise"]
       ELSE [properties |->
                [db \in Databases |->
                    IF DatabaseIndex(db) < Finished(fail)
                    THEN update_one(props[db], custom_id, conv.updates).collection
                    ELSE props[db]],
             calls |-> lookup \o FanOutCalls("update_one", fail),
             error |-> IF Finished(fail) < Len(DATABASE_NAMES) THEN "storage" ELSE "none",
             ret |-> IF Finished(fail) < Len(DATABASE_NAMES) THEN "raise" ELSE "True"]

update_property(props, custom_id, items, username, fail) ==
    LET conv == ConvertUpdates(items)
        lookup == <<ShardCall(get_database(custom_id), "find_one", fail # 1)>>
    IN IF ~conv.ok
       THEN [properties |-> props, calls |-> <<>>, error |-> "conversion",
             ret |-> IF conv.error = "ValueError" THEN "False" ELSE "raise"]
       ELSE IF fail = 1
       THEN [properties |-> props, calls |-> lookup, error |-> "storage", ret |-> "raise"]
       ELSE IF ~IsCreator(props, custom_id, username)
       THEN [properties |-> props, calls |-> lookup, error |-> "permission", ret |-> "False"]
       ELSE [properties |->
                [db \in Databases |->
                    IF DatabaseIndex(db) < Finished(fail)
                    THEN update_one(props[db], custom_id, conv.updates).collection
                    ELSE props[db]],
             calls |-> lookup \o FanOutCalls("update_one", fail),
             error |-> IF Finished(fail) < Len(DATABASE_NAMES) THEN "storage" ELSE "none",
             ret |-> IF Finished(fail) < Len(DATABASE_NAMES) THEN "raise" ELSE "True"]

delete_property(props, custom_id, username, fail) ==
    LET lookup == <<ShardCall(get_database(custom_id), "find_one", fail # 1)>>
        deletion_successful ==
            \E db \in Databases : /\ DatabaseIndex(db) < Finished(fail)
                                  /\ delete_one(props[db], custom_id).deleted_count > 0
        deletion_attempts == Finished(fail)
    IN IF fail = 1
       THEN [properties |-> props, calls |-> lookup, error |-> "storage", ret |-> "raise"]
       ELSE IF ~IsCreator(props, custom_id, username)
       THEN [properties |-> props, calls |-> lookup, error |-> "permission", ret |-> "False"]
       ELSE [properties |->
                [db \in Databases |->
                    IF DatabaseIndex(db) < Finished(fail)
                    THEN delete_one(props[db], custom_id).collection
                    ELSE props[db]],
             calls |-> lookup \o FanOutCalls("delete_one", fail),
             error |-> IF Finished(fail) < Len(DATABASE_NAMES) THEN "storage" ELSE "none",
             ret |-> IF Finished(fail) < Len(DATABASE_NAMES) THEN "raise"
                     ELSE IF deletion_successful /\ deletion_attempts = Len(DATABASE_NAMES)
                     THEN "True" ELSE "False"]

\* ------------------------------------------------------------------ search

\* {"$regex": pattern, "$options": "i"} on a value, for a pattern of literal
\* characters: a str that contains the pattern, whatever the case
regex_i(value, pattern) ==
    /\ value.t = "str"
    /\ \E i \in 1..(Len(value.v) - Len(pattern) + 1) :
          upper(SubSeq(value.v, i, i + Len(pattern) - 1)) = upper(pattern)

\* A query that keeps the patterns next to the custom_id
MatchesQuery_KeepsPatterns(doc, args) ==
    /\ args.custom_id # <<>> => Matches(doc, args.custom_id)
    /\ \A key \in {"city", "state", "type", "address"} :
            LET pattern == IF key = "type" THEN args.property_type ELSE args[key]
            IN pattern # <<>> => (key \in DOMAIN doc /\ regex_i(doc[key], pattern))

\* Lines 485-498: the query is the custom_id alone when one is given, the
\* given ones of the four patterns otherwise; a document matches when it has
\* every field of the query with a matching value.
MatchesQuery(doc, args) ==
    IF args.custom_id # <<>>
    THEN Matches(doc, args.custom_id)
    ELSE \A key \in {"city", "state", "type", "address"} :
            LET pattern == IF key = "type" THEN args.property_type ELSE args[key]
            IN pattern # <<>> => (key \in DOMAIN doc /\ regex_i(doc[key], pattern))

\* A find that returns the whole collection, whatever the query
find_IgnoresQuery(collection, args) == collection

\* list(properties_collection.find(query)), in the collection's order
find(collection, args) == SelectSeq(collection, LAMBDA doc : MatchesQuery(doc, args))

\* The documents the loop of lines 501-514 sees, each with the database it was
\* found in, in the order it sees them
RECURSIVE Hits(_, _, _)
Hits(props, args, i) ==
    IF i > Len(DATABASE_NAMES) THEN <<>>
    ELSE [j \in 1..Len(find(props[DATABASE_NAMES[i]], args)) |->
             [db_name |-> DATABASE_NAMES[i],
              property |-> find(props[DATABASE_NAMES[i]], args)[j]]]
         \o Hits(props, args, i + 1)

\* A reconciliation that returns the document seen last with each custom_id
Reconcile_LastCopyWins(hits) ==
    LET cid(n) == hits[n].property["custom_id"]
        firsts == SelectSeq([n \in 1..Len(hits) |-> n],
                            LAMBDA n : \A m \in 1..(n - 1) : cid(m) # cid(n))
        latest(n) == CHOOSE m \in 1..Len(hits) :
                        /\ cid(m) = cid(n)
                        /\ \A l \in (m + 1)..Len(hits) : cid(l) # cid(n)
        source_db(n) ==
            LET same == SelectSeq([m \in 1..Len(hits) |-> m], LAMBDA m : cid(m) = cid(n))
            IN [k \in 1..Len(same) |-> hits[same[k]].db_name]
    IN [k \in 1..Len(firsts) |->
           SetFields(hits[latest(firsts[k])].property,
                     [f \in {"source_db"} |-> source_db(firsts[k])])]

\* A reconciliation that keeps every document it sees
Reconcile_KeepsAll(hits) ==
    [n \in 1..Len(hits) |->
        SetFields(hits[n].property, [k \in {"source_db"} |-> <<hits[n].db_name>>])]

\* Lines 505-517: all_properties keeps the first document seen with each
\* custom_id, in the order they were first seen; source_db gets the database
\* name of every document seen with the custom_id, in the order seen.
Reconcile(hits) ==
    LET cid(n) == hits[n].property["custom_id"]
        firsts == SelectSeq([n \in 1..Len(hits) |-> n],
                            LAMBDA n : \A m \in 1..(n - 1) : cid(m) # cid(n))
        source_db(n) ==
            LET same == SelectSeq([m \in 1..Len(hits) |-> m], LAMBDA m : cid(m) = cid(n))
            IN [k \in 1..Len(same) |-> hits[same[k]].db_name]
    IN [k \in 1..Len(firsts) |->
           SetFields(hits[firsts[k]].property,
                     [f \in {"source_db"} |-> source_db(firsts[k])])]

\* x['price'] as a number, in tenths
PriceKey(property) ==
    IF property["price"].t = "int" THEN 10 * property["price"].v ELSE property["price"].v

\* A sort that takes no notice of reverse
sort_IgnoresReverse(list, reverse) ==
    LET Before(a, b) ==
            \/ PriceKey(list[a]) < PriceKey(list[b])
            \/ (PriceKey(list[a]) = PriceKey(list[b]) /\ a < b)
        rank(n) == Cardinality({m \in 1..Len(list) : Before(m, n)}) + 1
    IN [k \in 1..Len(list) |-> list[CHOOSE n \in 1..Len(list) : rank(n) = k]]

\* list.sort(key=..., reverse=...): stable, and with reverse the elements of
\* equal key keep their order too
sort(list, reverse) ==
    LET Before(a, b) ==
            \/ (IF reverse THEN PriceKey(list[a]) > PriceKey(list[b])
                ELSE PriceKey(list[a]) < PriceKey(list[b]))
            \/ (PriceKey(list[a]) = PriceKey(list[b]) /\ a < b)
        rank(n) == Cardinality({m \in 1..Len(list) : Before(m, n)}) + 1
    IN [k \in 1..Len(list) |-> list[CHOOSE n \in 1..Len(list) : rank(n) = k]]

\* A search that writes the source_db it computed back to the documents
AfterSearch_StoresSourceDb(props, result) ==
    [db \in Databases |->
        [n \in 1..Len(props[db]) |->
            IF \E k \in 1..Len(result) : result[k]["custom_id"] = props[db][n]["custom_id"]
            THEN SetFields(props[db][n],
                           [f \in {"source_db"} |->
                               result[CHOOSE k \in 1..Len(result) :
                                   result[k]["custom_id"] = props[db][n]["custom_id"]]["source_db"]])
            ELSE props[db][n]]]

\* Lines 501-514: the only shard call of search_property is find; source_db
\* is set on the dicts find returned, which are not the stored documents.
AfterSearch(props, result) == props

search_property(props, args) ==
    CHOOSE result \in
        {IF args.sort_by_price # <<>>
         THEN sort(properties_list, args.sort_by_price = <<"d", "e", "s", "c">>)
         ELSE properties_list :
            properties_list \in {Reconcile(hits) : hits \in {Hits(props, args, 1)}}} : TRUE

\* ------------------------------------------------------------------ inputs

MaxChanges == 3
MaxHash == 11
MaxChangesNoFailure == 4

Alice == <<"a", "l", "i", "c", "e">>
Bob == <<"b", "o", "b">>
Users == {Alice, Bob}

Listing(address, price) ==
    [key \in {SchemaFields[i] : i \in 1..Len(SchemaFields)} |->
        CASE key = "address" -> PyStr(address)
          [] key = "city" -> PyStr(<<"E", "l", " ", "P", "a", "s", "o">>)
          [] key = "state" -> PyStr(<<"T", "e", "x", "a", "s">>)
          [] key = "zip_code" -> PyInt(79901)
          [] key = "price" -> PyInt(price)
          [] key = "bedrooms" -> PyInt(3)
          [] key = "bathrooms" -> PyFloat(20)
          [] key = "square_footage" -> PyInt(900)
          [] key = "type" -> PyStr(<<"s", "a", "l", "e">>)
          [] key = "date_listed" -> PyStr(<<"2", "0", "2", "4", "-", "0", "4", "-", "0", "1">>)
          [] key = "description" -> PyStr(<<"h", "o", "m", "e">>)
          [] key = "images" -> PyList(<<>>)]

AddressOak == <<"7", " ", "O", "a", "k">>
AddressOakWide == <<"7", " ", " ", "O", "a", "k">>
AddressElm == <<"9", " ", "E", "l", "m">>

\* Two listings whose addresses differ and derive the same custom_id, one with
\* another custom_id, and one that fails validation (no zip_code, price a str)
RecordOak == Listing(AddressOak, 5)
RecordOakWide == Listing(AddressOakWide, 6)
RecordElm == Listing(AddressElm, 7)
RecordBad ==
    [key \in DOMAIN RecordOak \ {"zip_code"} |->
        IF key = "price" THEN PyStr(<<"5">>) ELSE RecordOak[key]]
Records == {RecordOak, RecordOakWide, RecordElm, RecordBad}

KeyOak == <<"T", "E", "X", "-", "E", "L", "P", "A", "-", "7", "O", "a", "k">>
KeyElm == <<"T", "E", "X", "-", "E", "L", "P", "A", "-", "9", "E", "l", "m">>
CustomIds == {KeyOak, KeyElm}

Item(field, value) == [field |-> field, value |-> value]

\* The update mappings of the model, as parse_updates builds them from
\* field=value arguments (every value a str)
UpdateInputs ==
    { <<Item("price", PyStr(<<"8">>))>>,
      <<Item("price", PyStr(<<"a", "b", "c">>))>>,
      <<Item("created_by", PyStr(Bob))>>,
      <<Item("custom_id", PyStr(KeyOak))>>,
      <<Item("custom_id", PyStr(KeyElm))>>,
      <<Item("address", PyStr(AddressElm))>> }

\* The arguments of a search_property call; <<>> stands for an argument not given
Query(custom_id, city, state, property_type, address, sort_by_price) ==
    [custom_id |-> custom_id, city |-> city, state |-> state,
     property_type |-> property_type, address |-> address, sort_by_price |-> sort_by_price]

SearchInputs ==
    { Query(KeyOak, <<>>, <<>>, <<>>, <<>>, <<>>),
      Query(KeyElm, <<>>, <<>>, <<>>, <<>>, <<>>),
      Query(<<>>, <<"e", "l">>, <<>>, <<>>, <<>>, <<>>),
      Query(<<>>, <<>>, <<>>, <<>>, <<"O", "A", "K">>, <<>>),
      Query(<<>>, <<>>, <<"t", "e", "x">>, <<>>, <<>>, <<"a", "s", "c">>),
      Query(<<>>, <<>>, <<"t", "e", "x">>, <<>>, <<>>, <<"d", "e", "s", "c">>),
      Query(KeyOak, <<"z">>, <<>>, <<>>, <<"E", "l", "m">>, <<>>) }

\* The SHA-256 digests of the custom_ids of the model, as integers, reduced
\* modulo len(DATABASE_NAMES) * (len(DATABASE_NAMES) - 1), which keeps both
\* residues the placement takes
Sha256 ==
    [custom_id \in CustomIds |-> IF custom_id = KeyOak THEN 10 ELSE 5]

\* The shard calls of a handler that can raise: those it makes when none does
FailPoints(r) == 0..Len(r.calls)

\* The model makes calls in the states reached by fewer than MaxChanges calls
\* that changed a collection.
Changes(r) == IF r.properties # properties THEN 1 ELSE 0
Within == nchanges < MaxChanges

\* A call that changes no collection leaves properties, next_oid and nchanges
\* as they were: the calls that can follow it, and their outcomes, are those
\* that can follow the state it was made in.  The model makes them from that
\* state only, which reaches the same states.
Fresh == last.op = "none" \/ last.changed

\* ----------------------------------------------------------------- actions

NoSearch ==
    [args |-> <<>>, result |-> <<>>,
     after |-> [op |-> "none", custom_id |-> <<>>, username |-> <<>>, ret |-> "none"]]

NoCall ==
    [op |-> "none", custom_id |-> <<>>, username |-> <<>>, data |-> <<>>,
     ret |-> "none", error |-> "none", calls |-> <<>>, changed |-> FALSE,
     before |-> [db \in Databases |-> <<>>]]

Init ==
    /\ properties = [db \in Databases |-> <<>>]
    /\ digest = Sha256
    /\ next_oid = 1
    /\ last = NoCall
    /\ nchanges = 0
    /\ found = NoSearch
    /\ running = <<>>

Insert ==
    /\ Within /\ Fresh
    /\ \E property_data \in Records, username \in Users :
       \E fail \in FailPoints(insert_property(properties, next_oid, property_data, username, 0)) :
        \E r \in {insert_property(properties, next_oid, property_data, username, fail)} :
           /\ properties' = r.properties
           /\ nchanges' = nchanges + Changes(r)
           /\ next_oid' = r.next_oid
           /\ last' = [op |-> "insert", custom_id |-> r.custom_id, username |-> username,
                       data |-> property_data, ret |-> r.ret, error |-> r.error,
                       calls |-> r.calls, changed |-> r.properties # properties, before |-> properties]
    /\ UNCHANGED <<digest, found, running>>

Update ==
    /\ Within /\ Fresh
    /\ \E custom_id \in CustomIds, items \in UpdateInputs, username \in Users :
       \E fail \in FailPoints(update_property(properties, custom_id, items, username, 0)) :
        \E r \in {update_property(properties, custom_id, items, username, fail)} :
           /\ properties' = r.properties
           /\ nchanges' = nchanges + Changes(r)
           /\ last' = [op |-> "update", custom_id |-> custom_id, username |-> username,
                       data |-> items, ret |-> r.ret, error |-> r.error, calls |-> r.calls,
                       changed |-> r.properties # properties, before |-> properties]
    /\ UNCHANGED <<digest, next_oid, found, running>>

Delete ==
    /\ Within /\ Fresh
    /\ \E custom_id \in CustomIds, username \in Users :
       \E fail \in FailPoints(delete_property(properties, custom_id, username, 0)) :
        \E r \in {delete_property(properties, custom_id, username, fail)} :
           /\ properties' = r.properties
           /\ nchanges' = nchanges + Changes(r)
           /\ last' = [op |-> "delete", custom_id |-> custom_id, username |-> username,
                       data |-> <<>>, ret |-> r.ret, error |-> r.error, calls |-> r.calls,
                       changed |-> r.properties # properties, before |-> properties]
    /\ UNCHANGED <<digest, next_oid, found, running>>

\* A search made right after the last call (or on the empty catalogue)
Search ==
    /\ Fresh
    /\ \E args \in SearchInputs :
       \E result \in {search_property(properties, args)} :
        /\ properties' = AfterSearch(properties, result)
        /\ found' = [args |-> args, result |-> result,
                     after |-> [op |-> last.op, custom_id |-> last.custom_id,
                                username |-> last.username, ret |-> last.ret]]
        /\ last' = [op |-> "search", custom_id |-> args.custom_id, username |-> <<>>,
                    data |-> args, ret |-> "list", error |-> "none",
                    calls |-> [i \in 1..Len(DATABASE_NAMES) |->
                                  ShardCall(DATABASE_NAMES[i], "find", TRUE)],
                    changed |-> FALSE, before |-> properties]
    /\ UNCHANGED <<digest, next_oid, nchanges, running>>

Next == Insert \/ Update \/ Delete \/ Search

Spec == Init /\ [][Next]_vars

\* ------------------------------------------- the calls when no shard call fails

\* The same calls with every shard call succeeding, followed further
WithinNoFailure == nchanges < MaxChangesNoFailure

InsertNoFailure ==
    /\ WithinNoFailure /\ Fresh
    /\ \E property_data \in Records, username \in Users :
        \E r \in {insert_property(properties, next_oid, property_data, username, 0)} :
           /\ properties' = r.properties
           /\ nchanges' = nchanges + Changes(r)
           /\ next_oid' = r.next_oid
           /\ last' = [op |-> "insert", custom_id |-> r.custom_id, username |-> username,
                       data |-> property_data, ret |-> r.ret, error |-> r.error,
                       calls |-> r.calls, changed |-> r.properties # properties, before |-> properties]
    /\ UNCHANGED <<digest, found, running>>

UpdateNoFailure ==
    /\ WithinNoFailure /\ Fresh
    /\ \E custom_id \in CustomIds, items \in UpdateInputs, username \in Users :
        \E r \in {update_property(properties, custom_id, items, username, 0)} :
           /\ properties' = r.properties
           /\ nchanges' = nchanges + Changes(r)
           /\ last' = [op |-> "update", custom_id |-> custom_id, username |-> username,
                       data |-> items, ret |-> r.ret, error |-> r.error, calls |-> r.calls,
                       changed |-> r.properties # properties, before |-> properties]
    /\ UNCHANGED <<digest, next_oid, found, running>>

DeleteNoFailure ==
    /\ WithinNoFailure /\ Fresh
    /\ \E custom_id \in CustomIds, username \in Users :
        \E r \in {delete_property(properties, custom_id, username, 0)} :
           /\ properties' = r.properties
           /\ nchanges' = nchanges + Changes(r)
           /\ last' = [op |-> "delete", custom_id |-> custom_id, username |-> username,
                       data |-> <<>>, ret |-> r.ret, error |-> r.error, calls |-> r.calls,
                       changed |-> r.properties # properties, before |-> properties]
    /\ UNCHANGED <<digest, next_oid, found, running>>

NextNoFailure == InsertNoFailure \/ UpdateNoFailure \/ DeleteNoFailure \/ Search

SpecNoFailure == Init /\ [][NextNoFailure]_vars

\* ------------------------------------------------- the placement on its own

\* The placement functions applied to a custom_id under any digest: the shard
\* calls recorded are the primary and the replica database.
Place ==
    /\ last.op = "none"
    /\ \E custom_id \in CustomIds :
        last' = [NoCall EXCEPT
                    !.op = "place", !.custom_id = custom_id,
                    !.calls = <<ShardCall(get_database(custom_id), "primary", TRUE),
                                ShardCall(generate_hash_for_duplication(
                                              custom_id, get_database(custom_id)),
                                          "replica", TRUE)>>]
    /\ UNCHANGED <<properties, digest, next_oid, nchanges, found, running>>

InitPlacement ==
    /\ properties = [db \in Databases |-> <<>>]
    /\ digest \in [CustomIds -> 0..MaxHash]
    /\ next_oid = 1
    /\ last = NoCall
    /\ nchanges = 0
    /\ found = NoSearch
    /\ running = <<>>

NextPlacement == Place

SpecPlacement == InitPlacement /\ [][NextPlacement]_vars

\* ------------------------------------- insert_property, shard call by shard call

\* The insert_property calls the model follows at once
MaxRunning == 2

\* A call that writes the replica database first
InsertTarget_ReplicaFirst(custom_id, pc) ==
    IF pc = "primary" THEN generate_hash_for_duplication(custom_id, get_database(custom_id))
    ELSE get_database(custom_id)

\* Lines 445 and 451: the database of the write at a position of the call
InsertTarget(custom_id, pc) ==
    IF pc = "primary" THEN get_database(custom_id)
    ELSE generate_hash_for_duplication(custom_id, get_database(custom_id))

\* A call that has returned
Returned(call, ret, error) == [call EXCEPT !.pc = "done", !.ret = ret, !.error = error]

\* Lines 433-435: the call starts, validates and derives its custom_id; its
\* next step is the first find_one of property_already_exists.
Started(property_data, username, custom_id) ==
    [pc |-> "check", db_index |-> 1, property_data |-> property_data, username |-> username,
     custom_id |-> custom_id, ret |-> "none", error |-> "none", calls |-> <<>>]

BeginInsert ==
    /\ Len(running) < MaxRunning
    /\ \E property_data \in Records, username \in Users :
          IF validate_property_data(property_data) # <<>>
          THEN running' = Append(running,
                    Returned(Started(property_data, username, <<>>), "False", "validation"))
          ELSE \E custom_id \in {create_custom_id(property_data["state"].v,
                                                   property_data["city"].v,
                                                   property_data["address"].v)} :
                  running' = Append(running, Started(property_data, username, custom_id))
    /\ UNCHANGED <<properties, digest, next_oid, last, nchanges, found>>

\* Lines 340-343: one find_one of the loop of property_already_exists.  It
\* raises (the call returns False), finds a document (ValueError, the call
\* returns False), or finds none and the loop goes on; after the last
\* database the call stamps its property_data (lines 439-442).
CheckStep ==
    /\ \E p \in 1..Len(running), ok \in BOOLEAN :
        /\ running[p].pc = "check"
        /\ \E call \in {[running[p] EXCEPT
                            !.calls = Append(@, ShardCall(DATABASE_NAMES[running[p].db_index],
                                                          "find_one", ok))]} :
              running' = [running EXCEPT ![p] =
                  IF ~ok THEN Returned(call, "False", "storage")
                  ELSE IF find_one(properties[DATABASE_NAMES[call.db_index]], call.custom_id).found
                  THEN Returned(call, "False", "exists")
                  ELSE IF call.db_index < Len(DATABASE_NAMES)
                  THEN [call EXCEPT !.db_index = @ + 1]
                  ELSE [call EXCEPT !.pc = "primary"]]
    /\ UNCHANGED <<properties, digest, next_oid, last, nchanges, found>>

\* Lines 445-447: insert_one on the primary database, which gives the document
\* its _id; when it raises the call returns False (lines 459-461).
WritePrimary ==
    /\ \E p \in 1..Len(running), ok \in BOOLEAN :
        /\ running[p].pc = "primary"
        /\ \E db \in {InsertTarget(running[p].custom_id, "primary")} :
           \E document \in {Stamped(running[p].property_data, running[p].custom_id,
                                     running[p].username, next_oid)} :
              IF ok
              THEN /\ properties' = [properties EXCEPT ![db] = insert_one(@, document)]
                   /\ next_oid' = next_oid + 1
                   /\ running' = [running EXCEPT ![p] =
                         [@ EXCEPT !.pc = "replica", !.property_data = document,
                                   !.calls = Append(@, ShardCall(db, "insert_one", TRUE))]]
              ELSE /\ running' = [running EXCEPT ![p] =
                         Returned([@ EXCEPT !.calls = Append(@, ShardCall(db, "insert_one", FALSE))],
                                  "False", "storage")]
                   /\ UNCHANGED <<properties, next_oid>>
    /\ UNCHANGED <<digest, last, nchanges, found>>

\* Lines 451-455: duplicate_property on the replica database, whose failure
\* is logged and nothing more; the call returns True.
WriteReplica ==
    /\ \E p \in 1..Len(running), ok \in BOOLEAN :
        /\ running[p].pc = "replica"
        /\ \E db \in {InsertTarget(running[p].custom_id, "replica")} :
           \E d \in {duplicate_property(properties, running[p].property_data, db, ~ok)} :
              /\ properties' = d.properties
              /\ running' = [running EXCEPT ![p] =
                    Returned([@ EXCEPT !.calls = @ \o d.calls], "True", "none")]
    /\ UNCHANGED <<digest, next_oid, last, nchanges, found>>

NextInsertSteps == BeginInsert \/ CheckStep \/ WritePrimary \/ WriteReplica

SpecInsertSteps == Init /\ [][NextInsertSteps]_vars

\* --------------------- insert_property and update_property calls, interleaved

\* Lines 595-603: the call starts and converts its values; its next step is
\* the find_one on the primary database.
StartedUpdate(custom_id, items, username) ==
    [pc |-> "lookup", db_index |-> 1, updates |-> ConvertUpdates(items).updates,
     username |-> username, custom_id |-> custom_id, ret |-> "none", error |-> "none",
     calls |-> <<>>]

BeginUpdate ==
    /\ Len(running) < MaxRunning
    /\ \E custom_id \in CustomIds, items \in UpdateInputs, username \in Users :
          running' = Append(running,
              IF ConvertUpdates(items).ok THEN StartedUpdate(custom_id, items, username)
              ELSE Returned(StartedUpdate(custom_id, items, username), "False", "conversion"))
    /\ UNCHANGED <<properties, digest, next_oid, last, nchanges, found>>

\* Lines 608-614: find_one on the primary database and the check of the
\* creator; an exception of the shard call leaves update_property.
UpdateLookup ==
    /\ \E p \in 1..Len(running), ok \in BOOLEAN :
        /\ running[p].pc = "lookup"
        /\ \E call \in {[running[p] EXCEPT
                            !.calls = Append(@, ShardCall(get_database(running[p].custom_id),
                                                          "find_one", ok))]} :
              running' = [running EXCEPT ![p] =
                  IF ~ok THEN Returned(call, "raise", "storage")
                  ELSE IF ~IsCreator(properties, call.custom_id, call.username)
                  THEN Returned(call, "False", "permission")
                  ELSE [call EXCEPT !.pc = "update"]]
    /\ UNCHANGED <<properties, digest, next_oid, last, nchanges, found>>

\* Lines 617-630: one update_one of the fan-out loop; after the last database
\* the call returns True.
UpdateStep ==
    /\ \E p \in 1..Len(running), ok \in BOOLEAN :
        /\ running[p].pc = "update"
        /\ \E db \in {DATABASE_NAMES[running[p].db_index]} :
           \E call \in {[running[p] EXCEPT !.calls = Append(@, ShardCall(db, "update_one", ok))]} :
              IF ok
              THEN /\ properties' = [properties EXCEPT ![db] =
                                        update_one(@, call.custom_id, call.updates).collection]
                   /\ running' = [running EXCEPT ![p] =
                         IF call.db_index < Len(DATABASE_NAMES)
                         THEN [call EXCEPT !.db_index = @ + 1]
                         ELSE Returned(call, "True", "none")]
              ELSE /\ running' = [running EXCEPT ![p] = Returned(call, "raise", "storage")]
                   /\ UNCHANGED properties
    /\ UNCHANGED <<digest, next_oid, last, nchanges, found>>

NextInterleaved ==
    \/ BeginInsert \/ CheckStep \/ WritePrimary \/ WriteReplica
    \/ BeginUpdate \/ UpdateLookup \/ UpdateStep

SpecInterleaved == Init /\ [][NextInterleaved]_vars

\* ------------------------------------------------ the validation on its own

\* The fields the records given to the validation differ in, and what a record
\* has for each: its value, no value, or a value of a type the schema refuses
VariedFields == {"address", "zip_code", "price", "bathrooms", "images"}
Given == {"given", "absent", "mistyped"}

Mistyped(key) ==
    CASE key = "address" -> PyInt(7)
      [] key = "zip_code" -> PyStr(<<"7", "9", "9", "0", "1">>)
      [] key = "price" -> PyStr(<<"5">>)
      [] key = "bathrooms" -> PyInt(2)
      [] key = "images" -> PyStr(<<"a">>)

Variant(choice) ==
    [key \in DOMAIN RecordOak \ {k \in VariedFields : choice[k] = "absent"} |->
        IF key \in VariedFields /\ choice[key] = "mistyped" THEN Mistyped(key)
        ELSE RecordOak[key]]

ValidationInputs == {Variant(choice) : choice \in [VariedFields -> Given]}

InitValidation ==
    /\ properties = [db \in Databases |-> <<>>]
    /\ digest = Sha256
    /\ next_oid = 1
    /\ last \in {[NoCall EXCEPT !.data = property_data] : property_data \in ValidationInputs}
    /\ nchanges = 0
    /\ found = NoSearch
    /\ running = <<>>

\* validate_property_data(property_data): the errors of the ValueError it
\* raises, none when it returns
Validate ==
    /\ last.op = "none"
    /\ last' = [op |-> "validate_property_data", data |-> last.data,
                errors |-> validate_property_data(last.data)]
    /\ UNCHANGED <<properties, digest, next_oid, nchanges, found, running>>

NextValidation == Validate

SpecValidation == InitValidation /\ [][NextValidation]_vars

\* ----------------------------------------------- the key deriver on its own

California == <<"C", "a", "l", "i", "f", "o", "r", "n", "i", "a">>
Irvine == <<"I", "r", "v", "i", "n", "e">>
AddressDeerPark ==
    <<"1", "4", "6", "3", "1", " ", "D", "e", "e", "r", " ", "P", "a", "r", "k", " ", "S", "t">>

\* The state, city and address arguments of the model
StateInputs ==
    { California, <<"T", "e", "x", "a", "s">>, <<"n", "y">>, <<"N", " ", "Y">> }
CityInputs ==
    { Irvine, <<"E", "l", " ", "P", "a", "s", "o">>, <<"L", "A">>, <<" ", "S", "a", "n", " ", "J", "o">> }
AddressInputs ==
    { AddressDeerPark, AddressOak, AddressOakWide, AddressElm,
      <<"D", "e", "e", "r", " ", "P", "a", "r", "k", " ", "S", "t">>,
      <<"1", "2", " ", "A", " ", "B", " ", "C", " ", "D", " ", "E">>,
      <<"A", "p", "t", " ", "5", ",", " ", "3", " ", "E", "l", "m">>,
      <<>> }

InitKeyDeriver ==
    /\ properties = [db \in Databases |-> <<>>]
    /\ digest = Sha256
    /\ next_oid = 1
    /\ last \in {[NoCall EXCEPT !.data = [state |-> state, city |-> city, address |-> address]] :
                    state \in StateInputs, city \in CityInputs, address \in AddressInputs}
    /\ nchanges = 0
    /\ found = NoSearch
    /\ running = <<>>

\* create_custom_id(state, city, address)
DeriveKey ==
    /\ last.op = "none"
    /\ \E custom_id \in {create_custom_id(last.data.state, last.data.city, last.data.address)} :
          last' = [op |-> "create_custom_id", data |-> last.data, custom_id |-> custom_id]
    /\ UNCHANGED <<properties, digest, next_oid, nchanges, found, running>>

NextKeyDeriver == DeriveKey

SpecKeyDeriver == InitKeyDeriver /\ [][NextKeyDeriver]_vars

\* ------------------------------------------------------------------ claims

\* The databases holding a document with the custom_id
Holders(props, custom_id) == {db \in Databases : find_one(props[db], custom_id).found}

\* The documents of a collection with the custom_id
Copies(collection, custom_id) ==
    {collection[i] : i \in {j \in 1..Len(collection) : Matches(collection[j], custom_id)}}

IsValid(property_data) == validate_property_data(property_data) = <<>>

KeyOf(property_data) ==
    create_custom_id(property_data["state"].v, property_data["city"].v,
                     property_data["address"].v)

NoFailure(call) == \A i \in 1..Len(call.calls) : call.calls[i].ok

\* The insert_one calls of a call, as a sequence
Writes(call) == SelectSeq(call.calls, LAMBDA c : c.op = "insert_one")

PrimaryOf(custom_id) == get_database(custom_id)
ReplicaOf(custom_id) == generate_hash_for_duplication(custom_id, get_database(custom_id))

\* C1: for every custom_id, whatever its hash value, the primary index and the
\* replica index (computed with the primary excluded) both lie in
\* 0..len(DATABASE_NAMES)-1 and differ.
C1_PlacementDistinct ==
    \A custom_id \in DOMAIN digest :
        LET primary == db_index(custom_id)
            replica == target_db_index(custom_id, DatabaseAt(primary))
        IN /\ primary \in 0..(Len(DATABASE_NAMES) - 1)
           /\ replica \in 0..(Len(DATABASE_NAMES) - 1)
           /\ primary # replica
           /\ last.op = "place" /\ last.custom_id = custom_id
                => /\ last.calls[1].db = DatabaseAt(primary)
                   /\ last.calls[2].db = DatabaseAt(replica)
                   /\ last.calls[1].db # last.calls[2].db

\* C1 witness: a custom_id has been placed whose hash leaves the same residue
\* modulo N and modulo N-1, so that the candidate replica was the primary itself.
C1_Witness ==
    /\ last.op = "place"
    /\ digest[last.custom_id] % Len(DATABASE_NAMES)
         = digest[last.custom_id] % (Len(DATABASE_NAMES) - 1)

\* C2: an insert of a valid record whose custom_id no shard holds, with no
\* failing shard call, returns True; afterwards exactly the primary and the
\* replica database of the custom_id hold a document with it, each one document
\* with created_by = the caller, and every other collection is unchanged.
C2_InsertStoresTwoCopies ==
    ( /\ last.op = "insert"
      /\ IsValid(last.data)
      /\ Holders(last.before, KeyOf(last.data)) = {}
      /\ NoFailure(last) )
    => LET custom_id == KeyOf(last.data)
           placed == {PrimaryOf(custom_id), ReplicaOf(custom_id)}
       IN /\ last.ret = "True"
          /\ Cardinality(placed) = 2
          /\ Holders(properties, custom_id) = placed
          /\ \A db \in placed :
                /\ Cardinality(Copies(properties[db], custom_id)) = 1
                /\ \A doc \in Copies(properties[db], custom_id) :
                      doc["created_by"] = PyStr(last.username)
          /\ \A db \in Databases \ placed : properties[db] = last.before[db]

\* C2 witness: an insert has made all its shard calls without failure and two
\* databases hold its custom_id.
C2_Witness ==
    /\ last.op = "insert" /\ last.ret = "True" /\ NoFailure(last)
    /\ Len(Writes(last)) = 2
    /\ Cardinality(Holders(properties, last.custom_id)) = 2

\* C3: when any database already holds a document with the custom_id derived
\* from a valid candidate, insert returns False and no collection changes (no
\* insert_one is called); unless the check itself was cut short by a failing
\* shard call, the failure is the duplicate error.
C3_DuplicateWritesNothing ==
    ( /\ last.op = "insert"
      /\ IsValid(last.data)
      /\ Holders(last.before, KeyOf(last.data)) # {} )
    => /\ last.ret = "False"
       /\ properties = last.before
       /\ Writes(last) = <<>>
       /\ NoFailure(last) => last.error = "exists"

\* C3 witness: an insert was refused as a duplicate while the custom_id was
\* held by a database that is neither its primary nor its replica, in a
\* document with another address than the candidate's.
C3_Witness ==
    /\ last.op = "insert" /\ last.error = "exists"
    /\ \E db \in Holders(last.before, last.custom_id) :
          /\ db \notin {PrimaryOf(last.custom_id), ReplicaOf(last.custom_id)}
          /\ find_one(last.before[db], last.custom_id).doc["address"] # last.data["address"]

\* The original insertion of an insert raised / was accepted
PrimaryWriteFailed(call) ==
    /\ call.op = "insert"
    /\ Writes(call) # <<>>
    /\ Writes(call)[1] = ShardCall(PrimaryOf(call.custom_id), "insert_one", FALSE)

PrimaryWriteDone(call) ==
    /\ call.op = "insert"
    /\ Writes(call) # <<>>
    /\ Writes(call)[1] = ShardCall(PrimaryOf(call.custom_id), "insert_one", TRUE)

\* C4: when the primary write of an insert fails, the insert returns False, no
\* write to the replica database is attempted, and no database holds a
\* document with the custom_id.
C4_PrimaryFailureIsFatal ==
    PrimaryWriteFailed(last)
        => /\ last.ret = "False"
           /\ Len(Writes(last)) = 1
           /\ Holders(properties, last.custom_id) = {}

\* C4 witness: an insert whose primary write failed.
C4_Witness == PrimaryWriteFailed(last) /\ last.error = "storage"

NotCreator(props, custom_id, username) ==
    /\ Holders(props, custom_id) # {}
    /\ \A db \in Databases : \A doc \in Copies(props[db], custom_id) :
          doc["created_by"] # PyStr(username)

\* C6: an update or a delete requested by a user who is not the created_by of
\* the record (of any stored copy of it) does not return True and leaves every
\* collection as it was, calling no shard but for the lookup; with convertible
\* values and no failing shard call it is refused for lack of permission.
C6_OnlyTheCreatorMutates ==
    ( /\ last.op \in {"update", "delete"}
      /\ NotCreator(last.before, last.custom_id, last.username) )
    => /\ last.ret # "True"
       /\ properties = last.before
       /\ \A i \in 1..Len(last.calls) : last.calls[i].op = "find_one"
       /\ (NoFailure(last) /\ last.error # "conversion")
            => (last.ret = "False" /\ last.error = "permission")

\* C6 witness: an update with a convertible value, by a user who created no
\* copy of the record stored on its two databases, has been refused.
C6_Witness ==
    /\ last.op = "update" /\ last.error = "permission"
    /\ NotCreator(last.before, last.custom_id, last.username)
    /\ Cardinality(Holders(last.before, last.custom_id)) = 2

\* The documents of the two states with the same _id in the same database
\* agree on the field
FieldKept(field) ==
    \A db \in Databases :
        \A i \in 1..Len(properties[db]) : \A j \in 1..Len(properties'[db]) :
            properties[db][i]["_id"] = properties'[db][j]["_id"]
                => properties[db][i][field] = properties'[db][j][field]

\* C7: created_by is immutable: no call changes the created_by of a stored
\* document, whatever fields an update names.
C7_CreatedByImmutable == [][FieldKept("created_by")]_vars

\* C8: custom_id is immutable: no call changes the custom_id of a stored
\* document, whatever fields an update names.
C8_CustomIdImmutable == [][FieldKept("custom_id")]_vars

\* C9: every stored document has custom_id = create_custom_id(state, city,
\* address) of its own current fields.
C9_CustomIdIsDerived ==
    \A db \in Databases : \A i \in 1..Len(properties[db]) :
        properties[db][i]["custom_id"] = PyStr(KeyOf(properties[db][i]))

\* C10: a custom_id held by some database is held by its primary database.
C10_PrimaryHoldsEveryRecord ==
    \A custom_id \in CustomIds :
        Holders(properties, custom_id) # {} => PrimaryOf(custom_id) \in Holders(properties, custom_id)

\* The databases holding a document with the custom_id that matches the query
MatchingHolders(props, args, custom_id) ==
    {db \in Databases :
        \E n \in 1..Len(props[db]) :
            MatchesQuery(props[db][n], args) /\ Matches(props[db][n], custom_id)}

\* The positions of the search result with the custom_id
Listed(result, custom_id) ==
    {n \in 1..Len(result) : result[n]["custom_id"] = PyStr(custom_id)}

\* C11: the list a search returns has no custom_id twice, whatever the query
\* and the state; a custom_id with a matching document on both its primary and
\* its replica database is listed exactly once.
C11_SearchListsEachKeyOnce ==
    last.op = "search" =>
        /\ \A n, m \in 1..Len(found.result) :
              found.result[n]["custom_id"] = found.result[m]["custom_id"] => n = m
        /\ \A custom_id \in CustomIds :
              {PrimaryOf(custom_id), ReplicaOf(custom_id)}
                    \subseteq MatchingHolders(properties, found.args, custom_id)
                 => Cardinality(Listed(found.result, custom_id)) = 1

\* C11 witness: a search by pattern has listed two records, each stored on both
\* its primary and its replica database.
C11_Witness ==
    /\ last.op = "search" /\ found.args.custom_id = <<>>
    /\ Len(found.result) = 2
    /\ \A custom_id \in CustomIds :
          /\ {PrimaryOf(custom_id), ReplicaOf(custom_id)}
                = MatchingHolders(properties, found.args, custom_id)
          /\ Cardinality(Listed(found.result, custom_id)) = 1

\* The source_db of a returned record, as a sequence of database names
SourceDb(record) == record["source_db"]

\* C12: the source_db of every record a search returns names exactly the
\* databases holding a matching document with the record's custom_id, each once.
C12_SourceDbIsTheHolders ==
    last.op = "search" =>
        \A n \in 1..Len(found.result) :
            /\ {SourceDb(found.result[n])[k] : k \in 1..Len(SourceDb(found.result[n]))}
                 = MatchingHolders(properties, found.args, found.result[n]["custom_id"].v)
            /\ \A k, l \in 1..Len(SourceDb(found.result[n])) :
                  SourceDb(found.result[n])[k] = SourceDb(found.result[n])[l] => k = l

\* C13: a search by the custom_id of an insert that has just returned True
\* lists exactly one record, with one or two database names in its source_db.
C13_InsertThenSearch ==
    ( /\ last.op = "search"
      /\ found.after.op = "insert" /\ found.after.ret = "True"
      /\ found.args.custom_id = found.after.custom_id )
    => /\ Len(found.result) = 1
       /\ found.result[1]["custom_id"] = PyStr(found.after.custom_id)
       /\ Len(SourceDb(found.result[1])) \in {1, 2}

\* C13 witness: the search followed an insert whose duplication failed, in a
\* catalogue that held another record, and found the record on its primary alone.
C13_Witness ==
    /\ last.op = "search"
    /\ found.after.op = "insert" /\ found.after.ret = "True"
    /\ found.args.custom_id = found.after.custom_id
    /\ Len(found.result) = 1
    /\ SourceDb(found.result[1]) = <<PrimaryOf(found.after.custom_id)>>
    /\ \E custom_id \in CustomIds \ {found.after.custom_id} : Holders(properties, custom_id) # {}

\* The last call is an update by the creator of the primary copy, with values
\* that convert, in which no shard call failed
AuthorizedUpdate ==
    /\ last.op = "update"
    /\ IsCreator(last.before, last.custom_id, last.username)
    /\ ConvertUpdates(last.data).ok
    /\ NoFailure(last)

\* The document has each field of the updates at the new value and its other
\* fields as the old document has them
UpdatedFrom(new, old, updates) ==
    /\ DOMAIN new = DOMAIN old \cup DOMAIN updates
    /\ \A k \in DOMAIN updates : new[k] = updates[k]
    /\ \A k \in DOMAIN old \ DOMAIN updates : new[k] = old[k]

\* C14: after an authorized update with convertible values and no failing
\* shard call, every database that held a document with the custom_id holds it
\* with the named fields at their converted values and its other fields as
\* before, its other documents being untouched; a database that held none is
\* unchanged; the call returns True however many databases matched.
C14_UpdateReachesEveryCopy ==
    AuthorizedUpdate =>
        /\ last.ret = "True"
        /\ \A db \in Databases :
            IF db \in Holders(last.before, last.custom_id)
            THEN /\ Len(properties[db]) = Len(last.before[db])
                 /\ \E n \in 1..Len(properties[db]) :
                      /\ Matches(last.before[db][n], last.custom_id)
                      /\ UpdatedFrom(properties[db][n], last.before[db][n],
                                     ConvertUpdates(last.data).updates)
                 /\ \A n \in 1..Len(properties[db]) :
                      ~Matches(last.before[db][n], last.custom_id)
                          => properties[db][n] = last.before[db][n]
            ELSE properties[db] = last.before[db]

\* C14 witness: the update price=8 by the creator has set the int 8 on the one
\* copy of a record that is on its primary alone, next to another record.
C14_Witness ==
    /\ AuthorizedUpdate /\ last.ret = "True"
    /\ Holders(last.before, last.custom_id) = {PrimaryOf(last.custom_id)}
    /\ \A n \in 1..Len(properties[PrimaryOf(last.custom_id)]) :
          Matches(properties[PrimaryOf(last.custom_id)][n], last.custom_id)
            => /\ properties[PrimaryOf(last.custom_id)][n]["price"] = PyInt(8)
               /\ last.before[PrimaryOf(last.custom_id)][n]["price"] # PyInt(8)
    /\ \E custom_id \in CustomIds \ {last.custom_id} : Holders(properties, custom_id) # {}

\* C15: after a delete has returned True no database holds a document with the
\* custom_id, and a search by the custom_id right after it returns an empty list.
C15_DeleteRemovesEveryCopy ==
    /\ (last.op = "delete" /\ last.ret = "True")
          => Holders(properties, last.custom_id) = {}
    /\ ( /\ last.op = "search"
         /\ found.after.op = "delete" /\ found.after.ret = "True"
         /\ found.args.custom_id = found.after.custom_id )
          => found.result = <<>>

\* The calls of the fan-out loop of the last call
FanOut(call) == SelectSeq(call.calls, LAMBDA c : c.op \in {"update_one", "delete_one"})

\* The last call is a delete by the creator of the primary copy, whose lookup
\* did not fail
AuthorizedDelete ==
    /\ last.op = "delete"
    /\ last.calls # <<>> /\ last.calls[1].ok
    /\ IsCreator(last.before, last.custom_id, last.username)

C17_FanOutToleratesFailure ==
    ( /\ last.op \in {"update", "delete"}
      /\ \E n \in 1..Len(FanOut(last)) : ~FanOut(last)[n].ok )
    => /\ Len(FanOut(last)) = Len(DATABASE_NAMES)
       /\ last.ret \in {"True", "False"}

\* C18: an insert of invalid property_data and an update with a value that
\* cannot be converted return False having called no shard, and every
\* collection is as it was.
C18_FailFast ==
    ( \/ (last.op = "insert" /\ ~IsValid(last.data))
      \/ (last.op = "update" /\ \E i \in 1..Len(last.data) : ~Convert(last.data[i]).ok) )
    => /\ last.ret = "False"
       /\ last.calls = <<>>
       /\ properties = last.before

\* C18 witness: the creator of a stored record has asked for price=abc on it.
C18_Witness ==
    /\ last.op = "update" /\ last.error = "conversion"
    /\ IsCreator(last.before, last.custom_id, last.username)
    /\ Cardinality(Holders(properties, last.custom_id)) = 2

\* C19: an update is idempotent: when an update has returned True, the same
\* call made again with no failing shard call leaves every collection as it is.
C19_UpdateIdempotent ==
    (last.op = "update" /\ last.ret = "True")
        => update_property(properties, last.custom_id, last.data, last.username, 0).properties
              = properties

\* C20: when a delete by the creator was interrupted by a failing shard call
\* after it removed some copies and not all, the same delete made again, with no
\* failing shard call, leaves no database holding the custom_id.
C20_DeleteRetryCompletes ==
    ( /\ AuthorizedDelete /\ last.ret = "raise"
      /\ Holders(properties, last.custom_id) # {}
      /\ Holders(properties, last.custom_id) # Holders(last.before, last.custom_id) )
    => Holders(delete_property(properties, last.custom_id, last.username, 0).properties,
               last.custom_id) = {}

\* The arguments of a search with the four patterns taken away
CustomIdAlone(args) ==
    Query(args.custom_id, <<>>, <<>>, <<>>, <<>>, args.sort_by_price)

\* C22: a search that is given a custom_id returns what the search by that
\* custom_id alone returns: the city, state, type and address given in the same
\* call change nothing.
C22_CustomIdTakesPrecedence ==
    (last.op = "search" /\ found.args.custom_id # <<>>)
        => found.result = search_property(properties, CustomIdAlone(found.args))

\* C22 witness: a search by custom_id, with a city and an address that the
\* stored record does not have, has listed the record.
C22_Witness ==
    /\ last.op = "search" /\ found.args.custom_id # <<>>
    /\ found.args.city # <<>> /\ found.args.address # <<>>
    /\ Len(found.result) = 1
    /\ ~regex_i(found.result[1]["city"], found.args.city)
    /\ ~regex_i(found.result[1]["address"], found.args.address)

\* The find of database i returns, at position j, a document with the custom_id
SeenAt(props, args, i, j, custom_id) ==
    /\ i \in 1..Len(DATABASE_NAMES)
    /\ j \in 1..Len(find(props[DATABASE_NAMES[i]], args))
    /\ find(props[DATABASE_NAMES[i]], args)[j]["custom_id"] = custom_id

\* The loop of lines 501-514 sees custom_id a before it sees custom_id b
SeenBefore(props, args, a, b) ==
    \E i \in 1..Len(DATABASE_NAMES) :
      \E j \in 1..Len(props[DATABASE_NAMES[i]]) :
        /\ SeenAt(props, args, i, j, a)
        /\ \A k \in 1..i : \A l \in 1..Len(props[DATABASE_NAMES[k]]) :
              (k < i \/ l <= j) => ~SeenAt(props, args, k, l, b)

\* C23: a search sorted "asc" lists the records by non-decreasing price, one
\* sorted "desc" by non-increasing price, and one with no sort direction lists
\* them in the order their custom_ids were first seen, the databases taken in
\* the order of DATABASE_NAMES.
C23_SortOrder ==
    last.op = "search" =>
        \A n, m \in 1..Len(found.result) :
            n < m =>
                /\ found.args.sort_by_price = <<"a", "s", "c">>
                      => PriceKey(found.result[n]) <= PriceKey(found.result[m])
                /\ found.args.sort_by_price = <<"d", "e", "s", "c">>
                      => PriceKey(found.result[n]) >= PriceKey(found.result[m])
                /\ found.args.sort_by_price = <<>>
                      => SeenBefore(properties, found.args,
                                    found.result[n]["custom_id"], found.result[m]["custom_id"])

\* C23 witness: a search sorted "desc" has listed two records of different
\* prices, the dearer first, that the loop saw in the other order.
C23_Witness ==
    /\ last.op = "search" /\ found.args.sort_by_price = <<"d", "e", "s", "c">>
    /\ Len(found.result) = 2
    /\ PriceKey(found.result[1]) > PriceKey(found.result[2])
    /\ SeenBefore(properties, found.args,
                  found.result[2]["custom_id"], found.result[1]["custom_id"])

\* The errors of a list that name the field
ErrorsOf(errors, key) == {n \in 1..Len(errors) : errors[n].field = key}

\* C24: the errors of a validation have exactly one entry for each required
\* field the record lacks, saying it is missing, exactly one for each field
\* the record has with a value of a wrong type, saying so, and no other entry;
\* a record that lacks images and nothing else, every value of the right type,
\* gets no error.
C24_ValidationReportsEveryField ==
    last.op = "validate_property_data" =>
        /\ \A key \in DOMAIN property_schema :
              IF key \notin DOMAIN last.data
              THEN IF key = "images" THEN ErrorsOf(last.errors, key) = {}
                   ELSE /\ Cardinality(ErrorsOf(last.errors, key)) = 1
                        /\ \A n \in ErrorsOf(last.errors, key) : last.errors[n].error = "missing"
              ELSE IF last.data[key].t \in property_schema[key]
                   THEN ErrorsOf(last.errors, key) = {}
                   ELSE /\ Cardinality(ErrorsOf(last.errors, key)) = 1
                        /\ \A n \in ErrorsOf(last.errors, key) : last.errors[n].error = "type"
        /\ last.data = [key \in DOMAIN RecordOak \ {"images"} |-> RecordOak[key]]
              => last.errors = <<>>

\* C24 witness: a validation has reported two missing fields and two fields of
\* a wrong type, all four in one list.
C24_Witness ==
    /\ last.op = "validate_property_data"
    /\ Len(last.errors) = 4
    /\ Cardinality({n \in 1..4 : last.errors[n].error = "missing"}) = 2
    /\ Cardinality({n \in 1..4 : last.errors[n].error = "type"}) = 2

\* create_custom_id("California", "Irvine", "14631 Deer Park St") has returned
DeerParkDerived ==
    /\ last.op = "create_custom_id"
    /\ last.data = [state |-> California, city |-> Irvine, address |-> AddressDeerPark]

Unconvertible(items) == \E i \in 1..Len(items) : ~Convert(items[i]).ok

\* C26: in update_property the conversion comes first and the check of the
\* creator second: an update with a value that cannot be converted ends with
\* the conversion error, having looked nothing up, also when the caller is not
\* the creator of the primary copy or the primary holds no copy; the
\* permission error is given only to requests whose values all converted.
C26_ConversionBeforePermission ==
    last.op = "update" =>
        /\ ( /\ Unconvertible(last.data)
             /\ ~IsCreator(last.before, last.custom_id, last.username) )
           => (last.error = "conversion" /\ last.calls = <<>>)
        /\ last.error = "permission" => ~Unconvertible(last.data)

\* C26 as stated: an update by a caller who is not the creator of the primary
\* copy, whose lookup does not fail, ends with the permission error, whatever
\* its values.
C26_AsStated ==
    ( /\ last.op = "update"
      /\ ~IsCreator(last.before, last.custom_id, last.username)
      /\ NoFailure(last) )
    => last.error = "permission"

\* C26 witness: a user who did not create the stored record has asked for
\* price=abc on it, and got the conversion error.
C26_Witness ==
    /\ last.op = "update" /\ last.error = "conversion"
    /\ Unconvertible(last.data)
    /\ NotCreator(last.before, last.custom_id, last.username)
    /\ PrimaryOf(last.custom_id) \in Holders(last.before, last.custom_id)

\* The created_by of the documents with the custom_id that find_one gives on
\* the database: one name, or none when the database has no such document
CreatorsOn(props, db, custom_id) ==
    {props[db][n]["created_by"].v :
        n \in {m \in 1..Len(props[db]) :
                  /\ Matches(props[db][m], custom_id)
                  /\ \A k \in 1..(m - 1) : ~Matches(props[db][k], custom_id)}}

\* The last call is an update or a delete that got to its permission check:
\* its values converted and its lookup did not fail
Decided ==
    /\ last.op \in {"update", "delete"}
    /\ last.op = "update" => ~Unconvertible(last.data)
    /\ Len(last.calls) > 0 /\ last.calls[1].ok

\* C27: whether an update or a delete is allowed depends on the copy on the
\* primary database of the custom_id and on nothing else.  With no copy there
\* the call is refused and changes nothing, also when another database holds
\* a copy created by the caller; with a copy there created by the caller the
\* fan-out starts, and with no failing shard call goes through every
\* database, also when the copy of another database names another creator.
C27_PrimaryCopyDecides ==
    Decided =>
        /\ CreatorsOn(last.before, PrimaryOf(last.custom_id), last.custom_id) # {last.username}
              => /\ last.ret = "False" /\ last.error = "permission"
                 /\ FanOut(last) = <<>>
                 /\ properties = last.before
        /\ CreatorsOn(last.before, PrimaryOf(last.custom_id), last.custom_id) = {last.username}
              => /\ FanOut(last) # <<>>
                 /\ last.error # "permission"
                 /\ NoFailure(last) =>
                       [i \in 1..Len(FanOut(last)) |-> FanOut(last)[i].db] = DATABASE_NAMES

\* C27 witness: the caller created the primary copy, the copy of another
\* database names another creator, and the call went through every database.
C27_Witness ==
    /\ Decided /\ NoFailure(last)
    /\ CreatorsOn(last.before, PrimaryOf(last.custom_id), last.custom_id) = {last.username}
    /\ \E db \in Databases \ {PrimaryOf(last.custom_id)} :
          /\ CreatorsOn(last.before, db, last.custom_id) # {}
          /\ CreatorsOn(last.before, db, last.custom_id) # {last.username}
    /\ Len(FanOut(last)) = Len(DATABASE_NAMES)

\* The first database, in the order of DATABASE_NAMES, with a document that
\* matches the query and has the custom_id
FirstHolder(props, args, custom_id) ==
    DATABASE_NAMES[CHOOSE i \in 1..Len(DATABASE_NAMES) :
        /\ DATABASE_NAMES[i] \in MatchingHolders(props, args, custom_id)
        /\ \A k \in 1..(i - 1) : DATABASE_NAMES[k] \notin MatchingHolders(props, args, custom_id)]

\* The record without its source_db
Fields(record) == [key \in DOMAIN record \ {"source_db"} |-> record[key]]

\* C29: every record a search returns has the field values of a document of
\* the first database, in the order of DATABASE_NAMES, holding a matching
\* document with its custom_id (the first such document of that database),
\* whichever database is the primary of the custom_id; the other databases
\* give their names to source_db and nothing else.
C29_FirstShardCopyIsReturned ==
    last.op = "search" =>
        \A n \in 1..Len(found.result) :
            \E first \in {FirstHolder(properties, found.args, found.result[n]["custom_id"].v)} :
              \E results \in {find(properties[first], found.args)} :
                /\ \E j \in 1..Len(results) :
                      /\ results[j] = Fields(found.result[n])
                      /\ \A k \in 1..(j - 1) :
                            results[k]["custom_id"] # found.result[n]["custom_id"]
                /\ SourceDb(found.result[n])[1] = first

\* C29 witness: a search has returned the copy of a replica database, which
\* comes before the primary in DATABASE_NAMES and differs from the primary copy.
C29_Witness ==
    /\ last.op = "search" /\ Len(found.result) > 0
    /\ \E custom_id \in CustomIds :
          /\ found.result[1]["custom_id"] = PyStr(custom_id)
          /\ FirstHolder(properties, found.args, custom_id) # PrimaryOf(custom_id)
          /\ find_one(properties[PrimaryOf(custom_id)], custom_id).found
          /\ MatchesQuery(find_one(properties[PrimaryOf(custom_id)], custom_id).doc, found.args)
          /\ find_one(properties[PrimaryOf(custom_id)], custom_id).doc # Fields(found.result[1])
          /\ PrimaryOf(custom_id) \in {SourceDb(found.result[1])[k] : k \in 1..Len(SourceDb(found.result[1]))}

\* The document without its _id
WithoutId(doc) == [key \in DOMAIN doc \ {"_id"} |-> doc[key]]

\* C30: with calls made one at a time, none of whose shard calls fails, the
\* documents with the same custom_id, on all the databases, have the same
\* field values but for _id.
C30_CopiesAgree ==
    \A db1, db2 \in Databases :
        \A i \in 1..Len(properties[db1]) : \A j \in 1..Len(properties[db2]) :
            properties[db1][i]["custom_id"] = properties[db2][j]["custom_id"]
                => WithoutId(properties[db1][i]) = WithoutId(properties[db2][j])

\* The databases holding the document the call has stored (the one with its _id)
StoredOn(call) ==
    {db \in Databases :
        /\ "_id" \in DOMAIN call.property_data
        /\ \E n \in 1..Len(properties[db]) : properties[db][n] = call.property_data}

\* C28: at every point of an insert_property call, the replica database holds
\* the document of the call only if the primary database holds it, and the
\* call has called insert_one on the replica database only after its
\* insert_one on the primary database returned.
C28_PrimaryBeforeReplica ==
    \A p \in {q \in 1..Len(running) : running[q].error # "validation"} :
        /\ ReplicaOf(running[p].custom_id) \in StoredOn(running[p])
              => PrimaryOf(running[p].custom_id) \in StoredOn(running[p])
        /\ \A n \in 1..Len(running[p].calls) :
              ( /\ running[p].calls[n].op = "insert_one"
                /\ running[p].calls[n].db = ReplicaOf(running[p].custom_id) )
              => \E m \in 1..(n - 1) :
                    running[p].calls[m]
                        = ShardCall(PrimaryOf(running[p].custom_id), "insert_one", TRUE)

\* C28 witness: a call is between its two writes: the primary database holds
\* its document and the replica database does not.
C28_Witness ==
    \E p \in {q \in 1..Len(running) : running[q].error # "validation"} :
        /\ running[p].pc = "replica"
        /\ StoredOn(running[p]) = {PrimaryOf(running[p].custom_id)}

\* C21: with calls made one at a time, so that no two inserts overlap, no
\* database holds two documents with the same custom_id.
C21_OneDocumentPerKey ==
    \A db \in Databases :
        \A i, j \in 1..Len(properties[db]) :
            properties[db][i]["custom_id"] = properties[db][j]["custom_id"] => i = j

\* The _id of the documents of a collection, in its order
Ids(collection) == [n \in 1..Len(collection) |-> collection[n]["_id"]]

\* C31: an update call, whatever its outcome, leaves every database with the
\* documents it had, none added and none removed; a search does too.  A
\* document that is on its primary database alone, its duplication having
\* failed, is therefore on that database alone after the call.
C31_UpdateKeepsTheDocuments ==
    last.op \in {"update", "search"} =>
        \A db \in Databases :
            /\ Len(properties[db]) = Len(last.before[db])
            /\ Ids(properties[db]) = Ids(last.before[db])

\* C31 witness: the creator has updated a record whose only copy is on its
\* primary database; the call returned True and changed that copy.
C31_Witness ==
    /\ last.op = "update" /\ last.ret = "True"
    /\ Holders(last.before, last.custom_id) = {PrimaryOf(last.custom_id)}
    /\ \A db \in Databases \ {PrimaryOf(last.custom_id)} : properties[db] = <<>>
    /\ Len(properties[PrimaryOf(last.custom_id)]) = 1
    /\ properties # last.before

\* C32: a search, whatever its arguments, leaves the collections of all the
\* databases as they were; no stored document has a source_db.
C32_SearchIsReadOnly ==
    /\ last.op = "search" => properties = last.before
    /\ \A db \in Databases : \A n \in 1..Len(properties[db]) :
          "source_db" \notin DOMAIN properties[db][n]

\* C32 witness: a sorted search has returned two records, each with its
\* source_db, from databases that hold what they held before it.
C32_Witness ==
    /\ last.op = "search" /\ found.args.sort_by_price # <<>>
    /\ Len(found.result) = 2
    /\ \A n \in 1..2 : Len(SourceDb(found.result[n])) = 2
    /\ properties = last.before

\* The call p is an insert_property, q an update_property of the custom_id
\* that p derived, by the same user; both have returned True, none of their
\* shard calls raised, and the update does not name custom_id.
InsertAndOwnUpdateDone(p, q) ==
    /\ "property_data" \in DOMAIN running[p] /\ "updates" \in DOMAIN running[q]
    /\ running[p].ret = "True" /\ running[q].ret = "True"
    /\ running[p].custom_id = running[q].custom_id
    /\ running[p].username = running[q].username
    /\ "custom_id" \notin DOMAIN running[q].updates
    /\ \A n \in 1..Len(running[p].calls) : running[p].calls[n].ok
    /\ \A n \in 1..Len(running[q].calls) : running[q].calls[n].ok

\* C33: when an insert and an update of the inserted record by its creator
\* have both completed, whatever the order of their shard calls and none of
\* them failing, the copies of the custom_id on all the databases have the
\* same field values; the replica is not left with the values from before
\* the update.
C33_InterleavedCopiesAgree ==
    \A p, q \in 1..Len(running) :
        InsertAndOwnUpdateDone(p, q) =>
            \A db1, db2 \in Databases :
                \A i \in 1..Len(properties[db1]) : \A j \in 1..Len(properties[db2]) :
                    ( /\ Matches(properties[db1][i], running[p].custom_id)
                      /\ Matches(properties[db2][j], running[p].custom_id) )
                    => WithoutId(properties[db1][i]) = WithoutId(properties[db2][j])

====
